---- MODULE Spec2Model ----
(***************************************************************************)
(* QR-code campaign manager: the QR code table, the scan event table and   *)
(* the request handlers of routes/qr.py and routes/public.py, with the     *)
(* analytics aggregation of get_qr_analytics computed as the code computes *)
(* it (window resolution in local wall-clock time, conversion to UTC,      *)
(* filtered rollups, local-hour histogram, peak hour).                     *)
(*                                                                         *)
(* Time is counted in seconds since the model epoch 2023-03-09T00:00:00Z;  *)
(* the store keeps scanned_at at that resolution.                          *)
(***************************************************************************)
EXTENDS Integers, Sequences, FiniteSets, TLC

VARIABLES
    qr_codes,     \* table qr_codes: set of rows [id, code, target_url, created_by, is_active]
    next_qr_id,   \* serial of qr_codes.id
    qr_scans,     \* table qr_scans: sequence of rows in insertion (id) order
    next_scan_id, \* serial of qr_scans.id
    now,          \* the clock (UTC seconds), read by datetime.now and by the store's now()
    resp,         \* the response of the request handled last
    call          \* the analytics call in flight when its queries run one by one

vars == <<qr_codes, next_qr_id, qr_scans, next_scan_id, now, resp, call>>

----------------------------------------------------------------------------
(* Bounds *)
MaxQR == 2
MaxScans == 2
\* scans stored when the rollups are explored
MaxRollupScans == 8

Users == {1, 2}
Codes == {"promo", "sale"}

----------------------------------------------------------------------------
(* Optional values *)
None == [some |-> FALSE, v |-> 0]
Some(x) == [some |-> TRUE, v |-> x]

Max(a, b) == IF a >= b THEN a ELSE b
Min(a, b) == IF a <= b THEN a ELSE b

----------------------------------------------------------------------------
(* datetime / zoneinfo *)
MINUTE == 60
HOUR == 60 * MINUTE
DAY == 24 * HOUR
\* resolution of a stored timestamp; time.max is the last instant of a day
Resolution == 1
time_min == 0
time_max == DAY - Resolution

EST == 0 - 5 * HOUR
EDT == 0 - 4 * HOUR
IST == 5 * HOUR + 30 * MINUTE
\* America/New_York changes its offset at 2022-03-13T07:00Z, 2022-11-06T06:00Z,
\* 2023-03-12T07:00Z and 2023-11-05T06:00Z
DstStart == 3 * DAY + 7 * HOUR
DstEnd == 241 * DAY + 6 * HOUR
NewYork ==
    << [at |-> DstStart - 364 * DAY, before |-> EST, after |-> EDT],
       [at |-> DstEnd - 364 * DAY, before |-> EDT, after |-> EST],
       [at |-> DstStart, before |-> EST, after |-> EDT],
       [at |-> DstEnd, before |-> EDT, after |-> EST] >>

ValidZones == {"UTC", "Asia/Kolkata", "America/New_York"}

\* the offset in force after the last of the transitions in passed
offset_after(trans, passed) ==
    IF passed = {} THEN trans[1].before
    ELSE trans[CHOOSE i \in passed : \A j \in passed : j <= i].after

\* tz.utcoffset of an absolute instant t
utcoffset(tz, t) ==
    CASE tz = "UTC" -> 0
      [] tz = "Asia/Kolkata" -> IST
      [] tz = "America/New_York" ->
            offset_after(NewYork, {i \in DOMAIN NewYork : t >= NewYork[i].at})

\* tz.utcoffset of a wall-clock time w with the given fold (PEP 495):
\* with fold = 0 a transition counts from the later of its two wall times,
\* with fold = 1 from the earlier one
wall_utcoffset(tz, w, fold) ==
    CASE tz = "UTC" -> 0
      [] tz = "Asia/Kolkata" -> IST
      [] tz = "America/New_York" ->
            offset_after(NewYork,
                {i \in DOMAIN NewYork :
                    w >= NewYork[i].at +
                         (IF fold = 0 THEN Max(NewYork[i].before, NewYork[i].after)
                          ELSE Min(NewYork[i].before, NewYork[i].after))})

\* an aware datetime in zone tz: wall-clock seconds and fold
\* datetime.now(tz) and utc_dt.astimezone(tz)
fromutc(tz, t) ==
    LET w == t + utcoffset(tz, t)
    IN  [wall |-> w,
         fold |-> IF wall_utcoffset(tz, w, 0) # utcoffset(tz, t) THEN 1 ELSE 0]

\* local_dt.astimezone(ZoneInfo("UTC"))
astimezone_utc(tz, ldt) == ldt.wall - wall_utcoffset(tz, ldt.wall, ldt.fold)

\* local_dt.replace(hour=0, minute=0, second=0, microsecond=0): fold is kept
replace_midnight(ldt) == [wall |-> (ldt.wall \div DAY) * DAY, fold |-> ldt.fold]

\* local_dt - timedelta(days=n): wall-clock arithmetic, fold is reset
minus_days(ldt, n) == [wall |-> ldt.wall - n * DAY, fold |-> 0]

\* datetime.combine(d, t, tzinfo=tz) for a date d (days since the epoch)
combine(d, t) == [wall |-> d * DAY + t, fold |-> 0]

\* local_dt.hour
hour_of(ldt) == (ldt.wall % DAY) \div HOUR

----------------------------------------------------------------------------
(* The store *)

\* the positions of order that lie in keep, in the order of order
RECURSIVE filter_seq(_, _)
filter_seq(order, keep) ==
    IF order = <<>> THEN <<>>
    ELSE (IF Head(order) \in keep THEN <<Head(order)>> ELSE <<>>)
         \o filter_seq(Tail(order), keep)

\* the positions of the rows satisfying a WHERE clause are given as a set
\* the rows of a SELECT without ORDER BY: the rows at the positions in keep, in
\* the order the store happens to deliver them (order is a permutation of the
\* row positions)
select_rows(rows, order, keep) ==
    LET pos == filter_seq(order, keep)
    IN  [i \in DOMAIN pos |-> rows[pos[i]]]

\* func.count(QRScan.id) over the rows at the positions in keep
count_rows(keep) == Cardinality(keep)

\* the orders in which the store may deliver n rows
RowOrders(n) == {f \in [1..n -> 1..n] : \A i, j \in 1..n : f[i] = f[j] => i = j}

\* the positions 1..Len(keys) sorted by key descending; equal keys stay in order
RECURSIVE sort_desc(_, _)
sort_desc(keys, left) ==
    IF left = {} THEN <<>>
    ELSE LET i == CHOOSE k \in left :
                    /\ \A j \in left : keys[j] <= keys[k]
                    /\ \A j \in left : j < k => keys[j] < keys[k]
         IN  <<i>> \o sort_desc(keys, left \ {i})

\* ORDER BY ... DESC over a sequence of rows in delivery order, keys[i] being
\* the sort key of seq[i]
order_by_desc(seq, keys) ==
    LET pos == sort_desc(keys, DOMAIN seq)
    IN  [i \in DOMAIN pos |-> seq[pos[i]]]

\* a query without its LIMIT clause
limit_none(seq, n) == seq

\* LIMIT n
limit(seq, n) == IF Len(seq) <= n THEN seq ELSE SubSeq(seq, 1, n)

\* the distinct elements of a sequence, in order of first appearance
RECURSIVE distinct(_, _)
distinct(seq, seen) ==
    IF seq = <<>> THEN <<>>
    ELSE IF Head(seq) \in seen THEN distinct(Tail(seq), seen)
         ELSE <<Head(seq)>> \o distinct(Tail(seq), seen \cup {Head(seq)})

\* GROUP BY: the distinct keys in order of first appearance, keys[i] being the
\* grouping key of the i-th row
group_by(keys) == distinct(keys, {})

----------------------------------------------------------------------------
(* get_qr_analytics *)

TimeRanges == {"today", "7days", "30days", "90days", "year", "all"}
TopN == 5
RecentN == 10

HTTPException(op, code, detail, req, queries) ==
    [op |-> op, status |-> code, detail |-> detail, req |-> req,
     queries |-> queries, window |-> <<>>, body |-> <<>>]

\* the days a range keyword reaches back
range_days(time_range) ==
    CASE time_range = "7days" -> 7
      [] time_range = "30days" -> 30
      [] time_range = "90days" -> 90
      [] time_range = "year" -> 365

\* a resolution whose today starts at UTC midnight of the reference instant
resolve_range_utc_today(time_range, start_date, end_date, tz, local_now) ==
    LET utc_now == astimezone_utc(tz, local_now)
        local_start ==
            IF start_date.some /\ end_date.some
            THEN Some(astimezone_utc(tz, combine(start_date.v, time_min)))
            ELSE IF time_range = "today" THEN Some((utc_now \div DAY) * DAY)
            ELSE IF time_range = "all" THEN None
            ELSE Some(astimezone_utc(tz, minus_days(local_now, range_days(time_range))))
    IN  [utc_start |-> local_start,
         utc_end   |-> IF start_date.some /\ end_date.some
                       THEN Some(astimezone_utc(tz, combine(end_date.v, time_max)))
                       ELSE Some(utc_now)]

\* a resolution in which the keyword all wins over an explicit date pair
resolve_range_keyword_first(time_range, start_date, end_date, tz, local_now) ==
    LET dates == start_date.some /\ end_date.some /\ time_range # "all"
    IN  [utc_start |->
            IF dates THEN Some(astimezone_utc(tz, combine(start_date.v, time_min)))
            ELSE IF time_range = "today"
                 THEN Some(astimezone_utc(tz, replace_midnight(local_now)))
            ELSE IF time_range = "all" THEN None
            ELSE Some(astimezone_utc(tz, minus_days(local_now, range_days(time_range)))),
         utc_end |->
            IF dates THEN Some(astimezone_utc(tz, combine(end_date.v, time_max)))
            ELSE Some(astimezone_utc(tz, local_now))]

\* a resolution whose explicit window ends at 00:00 of end_date
resolve_range_end_at_midnight(time_range, start_date, end_date, tz, local_now) ==
    LET dates == start_date.some /\ end_date.some
    IN  [utc_start |->
            IF dates THEN Some(astimezone_utc(tz, combine(start_date.v, time_min)))
            ELSE IF time_range = "today"
                 THEN Some(astimezone_utc(tz, replace_midnight(local_now)))
            ELSE IF time_range = "all" THEN None
            ELSE Some(astimezone_utc(tz, minus_days(local_now, range_days(time_range)))),
         utc_end |->
            IF dates THEN Some(astimezone_utc(tz, combine(end_date.v, time_min)))
            ELSE Some(astimezone_utc(tz, local_now))]

\* a resolution that filters on the local wall-clock times, never converted
resolve_range_unconverted(time_range, start_date, end_date, tz, local_now) ==
    LET dates == start_date.some /\ end_date.some
    IN  [utc_start |->
            IF dates THEN Some(combine(start_date.v, time_min).wall)
            ELSE IF time_range = "today" THEN Some(replace_midnight(local_now).wall)
            ELSE IF time_range = "all" THEN None
            ELSE Some(minus_days(local_now, range_days(time_range)).wall),
         utc_end |->
            IF dates THEN Some(combine(end_date.v, time_max).wall)
            ELSE Some(local_now.wall)]

\* the date range in local time, then converted to UTC
resolve_range(time_range, start_date, end_date, tz, local_now) ==
    LET local_start ==
            IF start_date.some /\ end_date.some
            THEN Some(combine(start_date.v, time_min))
            ELSE IF time_range = "today" THEN Some(replace_midnight(local_now))
            ELSE IF time_range = "all" THEN None
            ELSE Some(minus_days(local_now, range_days(time_range)))
        local_end ==
            IF start_date.some /\ end_date.some
            THEN Some(combine(end_date.v, time_max))
            ELSE Some(local_now)
    IN  [utc_start |-> IF local_start.some
                       THEN Some(astimezone_utc(tz, local_start.v)) ELSE None,
         utc_end   |-> IF local_end.some
                       THEN Some(astimezone_utc(tz, local_end.v)) ELSE None]

\* the window filters without the QRScan.qr_code_id == qr_id condition
filters_any_qr(s, qr_id, w) ==
    /\ (w.utc_start.some => s.scanned_at >= w.utc_start.v)
    /\ (w.utc_end.some => s.scanned_at <= w.utc_end.v)

\* the shared filters: and_(*filters)
filters(s, qr_id, w) ==
    /\ s.qr_code_id = qr_id
    /\ (w.utc_start.some => s.scanned_at >= w.utc_start.v)
    /\ (w.utc_end.some => s.scanned_at <= w.utc_end.v)

\* ten times round(x, 1) for x = num / den * 100 (round half to even)
round1(num, den) ==
    LET n == num * 1000
        q == n \div den
        r == n % den
    IN  IF 2 * r < den THEN q
        ELSE IF 2 * r > den THEN q + 1
        ELSE IF q % 2 = 0 THEN q ELSE q + 1

\* a peak hour that defaults to hour 0 when no hour was counted
peak_of_default_zero(hours) ==
    IF hours = <<>> THEN Some(0)
    ELSE LET cnt(h) == Cardinality({i \in DOMAIN hours : hours[i] = h})
             keys == distinct(hours, {})
             k == CHOOSE i \in DOMAIN keys :
                    /\ \A j \in DOMAIN keys : cnt(keys[j]) <= cnt(keys[i])
                    /\ \A j \in 1..(i - 1) : cnt(keys[j]) < cnt(keys[i])
         IN  Some(keys[k])

\* max(hourly_counts.items(), key=lambda x: x[1])[0]: the dict keeps its keys
\* in order of first insertion and max returns the first maximal item
peak_of(hours) ==
    IF hours = <<>> THEN None
    ELSE LET cnt(h) == Cardinality({i \in DOMAIN hours : hours[i] = h})
             keys == distinct(hours, {})
             k == CHOOSE i \in DOMAIN keys :
                    /\ \A j \in DOMAIN keys : cnt(keys[j]) <= cnt(keys[i])
                    /\ \A j \in 1..(i - 1) : cnt(keys[j]) < cnt(keys[i])
         IN  Some(keys[k])

\* an ownership query that looks the QR code up by id alone
owned_qr_any_owner(db_qr, qr_id, current_user) == {q \in db_qr : q.id = qr_id}

\* the ownership query: select(QRCode).where(id == qr_id, created_by == user)
owned_qr(db_qr, qr_id, current_user) ==
    {q \in db_qr : q.id = qr_id /\ q.created_by = current_user}

\* the hour of the stored UTC timestamp, whatever the zone
local_hour_utc(tz, scan_time) == hour_of(fromutc("UTC", scan_time))

\* scan_time.replace(tzinfo=UTC).astimezone(tz).hour
local_hour(tz, scan_time) == hour_of(fromutc(tz, scan_time))

\* the hourly query over all scans of the QR code, in or out of the window
hourly_rows_unfiltered(db_scans, order, qr_id, w) ==
    select_rows(db_scans, order, {i \in DOMAIN db_scans : db_scans[i].qr_code_id = qr_id})

\* the hourly query: select(QRScan.scanned_at).where(and_(*filters))
hourly_rows(db_scans, order, qr_id, w) ==
    select_rows(db_scans, order, {i \in DOMAIN db_scans : filters(db_scans[i], qr_id, w)})

\* a device count taken over every stored row instead of the filtered ones
device_counts_unfiltered(db_scans, F, d) ==
    count_rows({i \in DOMAIN db_scans : db_scans[i].device_type = d})

\* device_counts.get(d, 0): the group of device_type d among the rows at the
\* positions F that pass the filters
device_counts(db_scans, F, d) ==
    count_rows({i \in F : db_scans[i].device_type = d})

\* ZoneInfo(timezone) with a fallback to UTC in place of the exception
zone_info_default_utc(timezone) ==
    IF timezone \in ValidZones THEN Some(timezone) ELSE Some("UTC")

\* ZoneInfo(timezone): the zone, or None where the constructor raises
zone_info(timezone) ==
    IF timezone \in ValidZones THEN Some(timezone) ELSE None

get_qr_analytics(db_qr, db_scans, clock, qr_id, time_range, start_date, end_date, timezone, current_user, order) ==
    LET req == [qr_id |-> qr_id, time_range |-> time_range, start_date |-> start_date,
                end_date |-> end_date, timezone |-> timezone,
                current_user |-> current_user, at |-> clock]
    IN
    IF ~ zone_info(timezone).some
    THEN HTTPException("get_qr_analytics", 400, "Invalid timezone", req, <<>>)
    ELSE IF owned_qr(db_qr, qr_id, current_user) = {}
    THEN HTTPException("get_qr_analytics", 404, "QR code not found", req, <<"ownership">>)
    ELSE
    LET tz == zone_info(timezone).v
        local_now == fromutc(tz, clock)
        utc_now == astimezone_utc(tz, local_now)
        w == resolve_range(time_range, start_date, end_date, tz, local_now)
        \* the positions of the rows passing and_(*filters)
        F == {i \in DOMAIN db_scans : filters(db_scans[i], qr_id, w)}
        utc_today_start == astimezone_utc(tz, replace_midnight(local_now))
        total_scans == count_rows(F)
        mobile == device_counts(db_scans, F, "Mobile")
        city_rows == select_rows(db_scans, order, {i \in F : db_scans[i].city.some})
        city_groups == group_by([i \in DOMAIN city_rows |->
                            [country |-> city_rows[i].country, city |-> city_rows[i].city]])
        city_counted == [g \in DOMAIN city_groups |->
                            [country |-> city_groups[g].country,
                             city |-> city_groups[g].city,
                             count |-> count_rows({i \in DOMAIN city_rows :
                                 /\ city_rows[i].city = city_groups[g].city
                                 /\ city_rows[i].country = city_groups[g].country})]]
        country_rows == select_rows(db_scans, order, {i \in F : db_scans[i].country.some})
        country_groups == group_by([i \in DOMAIN country_rows |-> country_rows[i].country])
        country_counted == [g \in DOMAIN country_groups |->
                            [country |-> country_groups[g],
                             city |-> "",
                             count |-> count_rows({i \in DOMAIN country_rows :
                                 country_rows[i].country = country_groups[g]})]]
        all_scans == hourly_rows(db_scans, order, qr_id, w)
        hours == [i \in DOMAIN all_scans |-> local_hour(tz, all_scans[i].scanned_at)]
        recent_rows == select_rows(db_scans, order, F)
        recent == limit(order_by_desc(recent_rows,
                            [i \in DOMAIN recent_rows |-> recent_rows[i].scanned_at]),
                        RecentN)
    IN  [op |-> "get_qr_analytics", status |-> 200, detail |-> "", req |-> req,
         queries |-> <<"ownership", "counts", "device", "city", "country", "hourly", "recent">>,
         window |-> w,
         body |-> [
            qr_code_id |-> qr_id,
            total_scans |-> total_scans,
            scans_today |->
                count_rows({i \in F : db_scans[i].scanned_at >= utc_today_start}),
            scans_this_week |->
                count_rows({i \in F : db_scans[i].scanned_at >= utc_now - 7 * DAY}),
            scans_this_month |->
                count_rows({i \in F : db_scans[i].scanned_at >= utc_now - 30 * DAY}),
            device_breakdown |-> [mobile |-> mobile,
                                  desktop |-> device_counts(db_scans, F, "Desktop"),
                                  tablet |-> device_counts(db_scans, F, "Tablet")],
            mobile_percentage |-> IF total_scans # 0 THEN round1(mobile, total_scans) ELSE 0,
            top_countries |->
                limit(order_by_desc(country_counted,
                        [g \in DOMAIN country_counted |-> country_counted[g].count]), TopN),
            top_cities |->
                limit(order_by_desc(city_counted,
                        [g \in DOMAIN city_counted |-> city_counted[g].count]), TopN),
            peak_hour |-> peak_of(hours),
            hourly_breakdown |-> [i \in 1..24 |->
                [hour |-> i - 1,
                 count |-> Cardinality({j \in DOMAIN hours : hours[j] = i - 1})]],
            recent_scans |-> [i \in DOMAIN recent |-> recent[i].id]]]

----------------------------------------------------------------------------
(* utils.py *)

\* a user agent is modelled by the set of keywords its lower-cased text contains
parse_device_info(user_agent) ==
    [device_type |->
        IF user_agent \cap {"mobile", "android", "iphone"} # {} THEN "Mobile"
        ELSE IF user_agent \cap {"tablet", "ipad"} # {} THEN "Tablet"
        ELSE "Desktop"]

\* the dictionary get_location_from_gps falls back to
UnknownLocation == [country |-> Some("Unknown"), city |-> Some("Unknown"),
                    region |-> Some("Unknown")]

----------------------------------------------------------------------------
(* Handlers.  A request is taken when the previous response has been sent. *)

Idle == [op |-> "none"]

\* no analytics call is in flight
NoCall == [pc |-> "idle"]

Init ==
    /\ qr_codes = {}
    /\ next_qr_id = 1
    /\ qr_scans = <<>>
    /\ next_scan_id = 1
    /\ now = DAY - IST - 1
    /\ resp = Idle
    /\ call = NoCall

\* the clock advances
Tick(t) ==
    /\ resp = Idle
    /\ t > now
    /\ now' = t
    /\ UNCHANGED <<qr_codes, next_qr_id, next_scan_id, qr_scans, resp, call>>

\* the request ends: the response is sent and the session is closed
get_db ==
    /\ resp # Idle
    /\ resp' = Idle
    /\ UNCHANGED <<qr_codes, next_qr_id, next_scan_id, qr_scans, now, call>>

\* GET /api/qr: the QR codes of the user with their scan counts, newest first

\* a join that counts every scan for every QR code
scan_count_all(db_scans, qr_id) == Len(db_scans)

\* COALESCE(COUNT(QRScan.id), 0) of the group of qr_id in the outer join of
\* qr_codes with qr_scans on QRCode.id == QRScan.qr_code_id
scan_count(db_scans, qr_id) ==
    count_rows({i \in DOMAIN db_scans : db_scans[i].qr_code_id = qr_id})

\* ORDER BY created_at DESC: ids are given in the order of creation
RECURSIVE order_by_created_at_desc(_)
order_by_created_at_desc(rows) ==
    IF rows = {} THEN <<>>
    ELSE LET q == CHOOSE q \in rows : \A p \in rows : p.id <= q.id
         IN  <<q>> \o order_by_created_at_desc(rows \ {q})

\* OFFSET n
offset(seq, n) == IF n >= Len(seq) THEN <<>> ELSE SubSeq(seq, n + 1, Len(seq))

list_qr_codes(current_user, skip, page_limit) ==
    /\ resp = Idle
    /\ LET mine == {q \in qr_codes : q.created_by = current_user}
           page == limit(offset(order_by_created_at_desc(mine), skip), page_limit)
       IN  resp' = [op |-> "list_qr_codes", status |-> 200,
                    req |-> [current_user |-> current_user, skip |-> skip,
                             limit |-> page_limit],
                    body |-> [i \in DOMAIN page |->
                                [id |-> page[i].id, code |-> page[i].code,
                                 target_url |-> page[i].target_url,
                                 is_active |-> page[i].is_active,
                                 created_by |-> page[i].created_by,
                                 scan_count |-> scan_count(qr_scans, page[i].id)]]]
    /\ UNCHANGED <<qr_codes, next_qr_id, qr_scans, next_scan_id, now, call>>

\* the unique index on a column that stores every value
unique_violation_never(db_qr, code) == FALSE

\* qr_codes.code is unique: the store refuses a second row with the same code
unique_violation(db_qr, code) == \E q \in db_qr : q.code = code

\* POST /api/qr
create_qr_code(current_user, code, target_url) ==
    /\ resp = Idle
    /\ LET req == [current_user |-> current_user, code |-> code]
       IN
       IF \E q \in qr_codes : q.code = code
       THEN /\ resp' = [op |-> "create_qr_code", status |-> 400, req |-> req]
            /\ UNCHANGED <<qr_codes, next_qr_id, qr_scans, next_scan_id, now, call>>
       ELSE /\ next_qr_id <= MaxQR
            /\ qr_codes' = qr_codes \cup
                   {[id |-> next_qr_id, code |-> code, target_url |-> target_url,
                     created_by |-> current_user, is_active |-> TRUE]}
            /\ next_qr_id' = next_qr_id + 1
            /\ resp' = [op |-> "create_qr_code", status |-> 201, req |-> req,
                        id |-> next_qr_id, scan_count |-> 0]
            /\ UNCHANGED <<qr_scans, next_scan_id, now, call>>

\* The same handler with its awaits as separate steps: the query for a QR code
\* with the same code, then the commit of the new row.  Other requests may
\* come in between.
create_qr_code_begin(current_user, code, target_url) ==
    /\ resp = Idle
    /\ call.pc = "idle"
    /\ IF \E q \in qr_codes : q.code = code
       THEN /\ resp' = [op |-> "create_qr_code", status |-> 400,
                        req |-> [current_user |-> current_user, code |-> code]]
            /\ call' = call
       ELSE /\ call' = [pc |-> "insert",
                        req |-> [current_user |-> current_user, code |-> code,
                                 target_url |-> target_url]]
            /\ resp' = resp
    /\ UNCHANGED <<qr_codes, next_qr_id, qr_scans, next_scan_id, now>>

\* db.add, db.commit: the store refuses the row when the code has been taken in
\* the meantime, the handler rolls back and answers 500
create_qr_code_commit ==
    /\ resp = Idle
    /\ call.pc = "insert"
    /\ LET req == [current_user |-> call.req.current_user, code |-> call.req.code]
       IN
       IF unique_violation(qr_codes, call.req.code)
       THEN /\ resp' = [op |-> "create_qr_code", status |-> 500, req |-> req]
            /\ UNCHANGED <<qr_codes, next_qr_id>>
       ELSE /\ next_qr_id <= MaxQR
            /\ qr_codes' = qr_codes \cup
                   {[id |-> next_qr_id, code |-> call.req.code,
                     target_url |-> call.req.target_url,
                     created_by |-> call.req.current_user, is_active |-> TRUE]}
            /\ next_qr_id' = next_qr_id + 1
            /\ resp' = [op |-> "create_qr_code", status |-> 201, req |-> req,
                        id |-> next_qr_id, scan_count |-> 0]
    /\ call' = NoCall
    /\ UNCHANGED <<qr_scans, next_scan_id, now>>

\* GET /api/qr/{qr_id}
get_qr_code(current_user, qr_id) ==
    /\ resp = Idle
    /\ LET req == [current_user |-> current_user, qr_id |-> qr_id]
           row == owned_qr(qr_codes, qr_id, current_user)
       IN  resp' =
             IF row = {}
             THEN [op |-> "get_qr_code", status |-> 404, req |-> req]
             ELSE LET q == CHOOSE q \in row : TRUE
                  IN  [op |-> "get_qr_code", status |-> 200, req |-> req,
                       id |-> q.id, code |-> q.code, target_url |-> q.target_url,
                       is_active |-> q.is_active, created_by |-> q.created_by,
                       scan_count |-> scan_count(qr_scans, q.id)]
    /\ UNCHANGED <<qr_codes, next_qr_id, qr_scans, next_scan_id, now, call>>

\* PUT /api/qr/{qr_id}
update_qr_code(current_user, qr_id, target_url, is_active) ==
    /\ resp = Idle
    /\ LET req == [current_user |-> current_user, qr_id |-> qr_id]
           row == owned_qr(qr_codes, qr_id, current_user)
       IN
       IF row = {}
       THEN /\ resp' = [op |-> "update_qr_code", status |-> 404, req |-> req]
            /\ UNCHANGED <<qr_codes, next_qr_id, qr_scans, next_scan_id, now, call>>
       ELSE LET q == CHOOSE q \in row : TRUE
                u == [q EXCEPT
                        !.target_url = IF target_url.some THEN target_url.v ELSE @,
                        !.is_active = IF is_active.some THEN is_active.v ELSE @]
            IN  /\ qr_codes' = (qr_codes \ {q}) \cup {u}
                /\ resp' = [op |-> "update_qr_code", status |-> 200, req |-> req,
                            id |-> qr_id,
                            scan_count |->
                                count_rows({i \in DOMAIN qr_scans :
                                              qr_scans[i].qr_code_id = q.id})]
                /\ UNCHANGED <<next_qr_id, qr_scans, next_scan_id, now, call>>

\* a delete that leaves the scans of the QR code in the table
cascade_none(db_scans, qr_id) == db_scans

\* cascade="all, delete-orphan" on QRCode.scans: the scans of the deleted QR
\* code are deleted with it
cascade(db_scans, qr_id) ==
    select_rows(db_scans, [i \in DOMAIN db_scans |-> i],
                {i \in DOMAIN db_scans : db_scans[i].qr_code_id # qr_id})

\* DELETE /api/qr/{qr_id}
delete_qr_code(current_user, qr_id) ==
    /\ resp = Idle
    /\ LET req == [current_user |-> current_user, qr_id |-> qr_id]
           row == owned_qr(qr_codes, qr_id, current_user)
       IN
       IF row = {}
       THEN /\ resp' = [op |-> "delete_qr_code", status |-> 404, req |-> req]
            /\ UNCHANGED <<qr_codes, next_qr_id, qr_scans, next_scan_id, now, call>>
       ELSE /\ qr_codes' = qr_codes \ row
            /\ qr_scans' = cascade(qr_scans, qr_id)
            /\ resp' = [op |-> "delete_qr_code", status |-> 204, req |-> req]
            /\ UNCHANGED <<next_qr_id, next_scan_id, now, call>>

\* GET /r/{code}: the page that asks for the position, posts the scan to
\* /api/scan-log and then sends the browser to target_url
redirect_qr(code) ==
    /\ resp = Idle
    /\ resp' =
          IF ~ \E q \in qr_codes : q.code = code
          THEN [op |-> "redirect_qr", status |-> 404, code |-> code]
          ELSE LET q == CHOOSE q \in qr_codes : q.code = code
               IN  IF ~ q.is_active
                   THEN [op |-> "redirect_qr", status |-> 410, code |-> code]
                   ELSE [op |-> "redirect_qr", status |-> 200, code |-> code,
                         media_type |-> "text/html",
                         QR_ID |-> q.id, TARGET_URL |-> q.target_url]
    /\ UNCHANGED <<qr_codes, next_qr_id, next_scan_id, qr_scans, now, call>>

\* POST /api/scan-log.  user_agent is None for a JSON null; gps tells whether
\* latitude and longitude are both present and non-zero; location is what the
\* reverse geocoder answers.  Without gps the call get_location_from_gps(ip_address)
\* lacks an argument and raises; an unknown qr_code_id violates the foreign key
log_scan(scan_id, qr_code_id, user_agent, gps, location) ==
    /\ resp = Idle
    /\ LET req == [qr_code_id |-> qr_code_id, user_agent |-> user_agent,
                   gps |-> gps, location |-> location]
       IN
       IF /\ user_agent.some
          /\ gps
          /\ \E q \in qr_codes : q.id = qr_code_id
       THEN /\ qr_scans' = Append(qr_scans,
                   [id |-> scan_id,
                    qr_code_id |-> qr_code_id,
                    scanned_at |-> now,
                    device_type |-> parse_device_info(user_agent.v).device_type,
                    country |-> location.country,
                    city |-> location.city,
                    region |-> location.region])
            /\ next_scan_id' = scan_id + 1
            /\ resp' = [op |-> "log_scan", status |-> 200, body |-> "success",
                        req |-> req]
            /\ UNCHANGED <<qr_codes, next_qr_id, now, call>>
       ELSE /\ resp' = [op |-> "log_scan", status |-> 200, body |-> "error",
                        req |-> req]
            /\ UNCHANGED <<qr_codes, next_qr_id, next_scan_id, qr_scans, now, call>>

\* GET /api/qr/{qr_id}/analytics
GetQRAnalytics(current_user, qr_id, r, timezone, order) ==
    /\ resp = Idle
    /\ resp' = get_qr_analytics(qr_codes, qr_scans, now, qr_id, r.time_range,
                                r.start_date, r.end_date, timezone, current_user, order)
    /\ UNCHANGED <<qr_codes, next_qr_id, next_scan_id, qr_scans, now, call>>

\* The same handler with its awaits as separate steps: the ownership query,
\* the reading of the clock, then the six rollup queries one by one, each
\* against the table as it is when the query runs.  Ticks of the clock and
\* other requests may come in between.

\* the boundaries a query is given: the window, and for the counts query the
\* starts of today, of the last 7 days and of the last 30 days
boundaries(tz, clock, r) ==
    LET local_now == fromutc(tz, clock)
        utc_now == astimezone_utc(tz, local_now)
    IN  [window |-> resolve_range(r.time_range, r.start_date, r.end_date, tz, local_now),
         today |-> astimezone_utc(tz, replace_midnight(local_now)),
         week |-> utc_now - 7 * DAY,
         month |-> utc_now - 30 * DAY]

\* a handler that reads the clock again when it builds each query
reference_instant_reread(captured, clock) == clock

\* the instant the boundaries of a query come from: local_now as read once
\* before the first rollup query, whatever the clock shows when the query runs
reference_instant(captured, clock) == captured

\* the store delivers its rows in insertion order or in the reverse order
delivery(reversed) ==
    LET n == Len(qr_scans)
    IN  [i \in 1..n |-> IF reversed THEN n + 1 - i ELSE i]

\* what the handler computes from the table as it is now with the boundaries
\* of the call c
query_now(c) ==
    get_qr_analytics(c.db_qr, qr_scans, reference_instant(c.ref, now), c.req.qr_id,
                     c.req.r.time_range, c.req.r.start_date, c.req.r.end_date,
                     c.req.timezone, c.req.current_user, delivery(c.req.reversed))

\* the ownership query (and before it the validation of the zone)
get_qr_analytics_begin(current_user, qr_id, r, timezone, reversed) ==
    /\ resp = Idle
    /\ call.pc = "idle"
    /\ LET first == get_qr_analytics(qr_codes, qr_scans, now, qr_id, r.time_range,
                        r.start_date, r.end_date, timezone, current_user,
                        delivery(reversed))
       IN  IF first.status # 200
           THEN resp' = first /\ call' = call
           ELSE /\ call' = [pc |-> "capture",
                            req |-> [current_user |-> current_user, qr_id |-> qr_id,
                                     r |-> r, timezone |-> timezone,
                                     reversed |-> reversed],
                            db_qr |-> owned_qr(qr_codes, qr_id, current_user),
                            ref |-> 0, used |-> <<>>, counts |-> <<>>,
                            device_breakdown |-> <<>>, top_cities |-> <<>>,
                            top_countries |-> <<>>, hourly |-> <<>>,
                            recent_scans |-> <<>>]
                /\ resp' = resp
    /\ UNCHANGED <<qr_codes, next_qr_id, next_scan_id, qr_scans, now>>

\* local_now = datetime.now(tz)
get_qr_analytics_now ==
    /\ call.pc = "capture"
    /\ call' = [call EXCEPT !.pc = "counts", !.ref = now]
    /\ UNCHANGED <<qr_codes, next_qr_id, next_scan_id, qr_scans, now, resp>>

\* the call c after its next query has run with the boundaries b and has given
\* the rows from which the handler computes q
after_query(c, b, q) ==
    LET w == [window |-> b.window]
    IN  CASE c.pc = "counts" ->
               [c EXCEPT !.pc = "device",
                   !.used = Append(@, [query |-> "counts", bounds |-> b]),
                   !.counts = [total_scans |-> q.total_scans,
                               scans_today |-> q.scans_today,
                               scans_this_week |-> q.scans_this_week,
                               scans_this_month |-> q.scans_this_month]]
          [] c.pc = "device" ->
               [c EXCEPT !.pc = "city",
                   !.used = Append(@, [query |-> "device", bounds |-> w]),
                   !.device_breakdown = q.device_breakdown]
          [] c.pc = "city" ->
               [c EXCEPT !.pc = "country",
                   !.used = Append(@, [query |-> "city", bounds |-> w]),
                   !.top_cities = q.top_cities]
          [] c.pc = "country" ->
               [c EXCEPT !.pc = "hourly",
                   !.used = Append(@, [query |-> "country", bounds |-> w]),
                   !.top_countries = q.top_countries]
          [] c.pc = "hourly" ->
               [c EXCEPT !.pc = "recent",
                   !.used = Append(@, [query |-> "hourly", bounds |-> w]),
                   !.hourly = [peak_hour |-> q.peak_hour,
                               hourly_breakdown |-> q.hourly_breakdown]]
          [] c.pc = "recent" ->
               [c EXCEPT !.pc = "return",
                   !.used = Append(@, [query |-> "recent", bounds |-> w]),
                   !.recent_scans = q.recent_scans]

\* one of the six rollup queries runs
get_qr_analytics_query ==
    /\ call.pc \in {"counts", "device", "city", "country", "hourly", "recent"}
    /\ call' = after_query(call,
                    boundaries(call.req.timezone, reference_instant(call.ref, now),
                               call.req.r),
                    query_now(call).body)
    /\ UNCHANGED <<qr_codes, next_qr_id, next_scan_id, qr_scans, now, resp>>

\* a handler that answers with what it has computed when a query fails
analytics_error_partial(c) ==
    [op |-> "get_qr_analytics", status |-> 200, detail |-> "",
     req |-> [qr_id |-> c.req.qr_id, time_range |-> c.req.r.time_range,
              start_date |-> c.req.r.start_date, end_date |-> c.req.r.end_date,
              timezone |-> c.req.timezone, current_user |-> c.req.current_user,
              at |-> c.ref],
     queries |-> <<"ownership">> \o [i \in DOMAIN c.used |-> c.used[i].query],
     window |-> <<>>,
     body |-> [qr_code_id |-> c.req.qr_id, counts |-> c.counts,
               device_breakdown |-> c.device_breakdown]]

\* except Exception: HTTPException(500, "Failed to generate analytics"); what
\* the queries before the failing one have given is dropped
analytics_error(c) ==
    HTTPException("get_qr_analytics", 500, "Failed to generate analytics",
                  [qr_id |-> c.req.qr_id, time_range |-> c.req.r.time_range,
                   start_date |-> c.req.r.start_date, end_date |-> c.req.r.end_date,
                   timezone |-> c.req.timezone, current_user |-> c.req.current_user,
                   at |-> c.ref],
                  <<"ownership">> \o [i \in DOMAIN c.used |-> c.used[i].query])

\* the store fails one of the six rollup queries
get_qr_analytics_fail ==
    /\ resp = Idle
    /\ call.pc \in {"counts", "device", "city", "country", "hourly", "recent"}
    /\ resp' = analytics_error(call)
    /\ call' = NoCall
    /\ UNCHANGED <<qr_codes, next_qr_id, qr_scans, next_scan_id, now>>

\* the result is returned
get_qr_analytics_return ==
    /\ resp = Idle
    /\ call.pc = "return"
    /\ resp' = [op |-> "get_qr_analytics", status |-> 200, detail |-> "",
                req |-> [qr_id |-> call.req.qr_id,
                         time_range |-> call.req.r.time_range,
                         start_date |-> call.req.r.start_date,
                         end_date |-> call.req.r.end_date,
                         timezone |-> call.req.timezone,
                         current_user |-> call.req.current_user, at |-> call.ref],
                queries |-> <<"ownership", "counts", "device", "city", "country",
                              "hourly", "recent">>,
                window |-> call.used[1].bounds.window,
                body |-> [
                    qr_code_id |-> call.req.qr_id,
                    total_scans |-> call.counts.total_scans,
                    scans_today |-> call.counts.scans_today,
                    scans_this_week |-> call.counts.scans_this_week,
                    scans_this_month |-> call.counts.scans_this_month,
                    device_breakdown |-> call.device_breakdown,
                    mobile_percentage |->
                        IF call.counts.total_scans # 0
                        THEN round1(call.device_breakdown.mobile, call.counts.total_scans)
                        ELSE 0,
                    top_countries |-> call.top_countries,
                    top_cities |-> call.top_cities,
                    peak_hour |-> call.hourly.peak_hour,
                    hourly_breakdown |-> call.hourly.hourly_breakdown,
                    recent_scans |-> call.recent_scans]]
    /\ call' = NoCall
    /\ UNCHANGED <<qr_codes, next_qr_id, next_scan_id, qr_scans, now>>

----------------------------------------------------------------------------
(* Inputs *)

QRIds == 1..(MaxQR + 1)

\* instants the clock visits: one second before and at local midnight of
\* 2023-03-10 in Asia/Kolkata, UTC and America/New_York, then 7, 30, 90 and
\* 365 days after the UTC midnight (the first three in New York's summer time)
\* and half an hour into the hour New York repeats on 2023-11-05
Instants ==
    {DAY - IST - 1, DAY - IST, DAY - 1, DAY, DAY - EST - 1, DAY - EST}
    \cup {DAY + n * DAY : n \in {7, 30, 90, 365}}
    \cup {DstEnd + 30 * MINUTE}

KeywordRange(r) == [time_range |-> r, start_date |-> None, end_date |-> None]
DateRange(r, a, b) == [time_range |-> r, start_date |-> a, end_date |-> b]

\* (time_range, start_date, end_date) of the analytics requests
RangeInputs ==
    {KeywordRange(r) : r \in TimeRanges}
    \cup {DateRange("30days", Some(0), Some(0)), DateRange("30days", Some(1), Some(1)),
          DateRange("all", Some(1), Some(1)), DateRange("today", Some(0), Some(1)),
          DateRange("30days", Some(1), Some(0)), DateRange("7days", Some(1), None)}

iPhone == Some({"iphone", "mobile"})
Pune == [country |-> Some("India"), city |-> Some("Pune"), region |-> Some("Maharashtra")]

\* Time windows: the clock visits every instant, every range and zone is asked
\* for; the QR codes belong to user 1 and every scan comes from the same device
Next ==
    \/ \E t \in Instants : Tick(t)
    \/ get_db
    \/ \E c \in Codes : create_qr_code(1, c, "u1")
    \/ /\ next_scan_id <= MaxScans
       /\ \E id \in QRIds : log_scan(next_scan_id, id, iPhone, TRUE, Pune)
    \/ \E id \in 1..MaxQR, r \in RangeInputs, tz \in ValidZones,
          order \in RowOrders(Len(qr_scans)) : GetQRAnalytics(1, id, r, tz, order)

Spec == Init /\ [][Next]_vars

\* Ownership: two users create, update and delete QR codes and ask for the
\* analytics of their own, of each other's and of missing QR codes
NextCrud ==
    \/ Tick(DAY)
    \/ get_db
    \/ \E u \in Users, c \in Codes : create_qr_code(u, c, "u1")
    \/ \E u \in Users, id \in QRIds, url \in {None, Some("u2")},
          a \in {None, Some(FALSE), Some(TRUE)} : update_qr_code(u, id, url, a)
    \/ \E u \in Users, id \in QRIds : delete_qr_code(u, id)
    \/ \E u \in Users, skip \in {0, 1}, page_limit \in {1, 50} :
          list_qr_codes(u, skip, page_limit)
    \/ \E u \in Users, id \in QRIds : get_qr_code(u, id)
    \/ \E c \in Codes : redirect_qr(c)
    \/ /\ next_scan_id <= MaxScans
       /\ \E id \in QRIds, ua \in {iPhone, None}, gps \in BOOLEAN,
             loc \in {Pune, UnknownLocation} :
             log_scan(next_scan_id, id, ua, gps, loc)
    \/ \E u \in Users, id \in QRIds, r \in {KeywordRange("30days"), KeywordRange("all")},
          tz \in {"Asia/Kolkata", "Mars/Phobos"}, order \in RowOrders(Len(qr_scans)) :
          GetQRAnalytics(u, id, r, tz, order)

SpecCrud == Init /\ [][NextCrud]_vars

\* user agents of a desktop browser and of a tablet browser
Windows == Some({"windows", "chrome"})
FirefoxTablet == Some({"tablet", "firefox"})

\* answers of the reverse geocoder: a response without countryName, city,
\* locality and principalSubdivision, a response with a country alone, and a
\* place of its own for the n-th scan (every such place has a city of the
\* same name)
NoPlace == [country |-> None, city |-> None, region |-> None]
IndiaNoCity == [country |-> Some("India"), city |-> None, region |-> None]
Countries == <<"Japan", "Kenya", "Peru", "Spain", "Chile", "Ghana", "Nepal", "Fiji", "Oman">>
Place(n) == [country |-> Some(Countries[((n - 1) % Len(Countries)) + 1]),
             city |-> Some("Centre"), region |-> None]

\* the device and the geocoder's answer of the n-th scan request
ScanInputs(n) ==
    IF n = 1 THEN {[user_agent |-> iPhone, location |-> Pune],
                   [user_agent |-> iPhone, location |-> NoPlace]}
    ELSE IF n = 2 THEN {[user_agent |-> iPhone, location |-> Pune],
                        [user_agent |-> FirefoxTablet, location |-> UnknownLocation],
                        [user_agent |-> Windows, location |-> IndiaNoCity]}
    ELSE {[user_agent |-> Windows, location |-> Place(n)],
          [user_agent |-> iPhone, location |-> Pune]}

\* orders in which the store delivers n rows: all of them for few rows,
\* insertion order and its reverse for more
DeliveryOrders(n) ==
    IF n <= 3 THEN RowOrders(n)
    ELSE {[i \in 1..n |-> i], [i \in 1..n |-> n + 1 - i]}

\* Rollups: one QR code of user 1 collects scans from several devices and
\* places on two days and its analytics are asked for in UTC
NextRollup ==
    \/ Tick(DAY)
    \/ get_db
    \/ create_qr_code(1, "promo", "u1")
    \/ /\ next_scan_id <= MaxRollupScans
       /\ \E in \in ScanInputs(next_scan_id) :
             log_scan(next_scan_id, 1, in.user_agent, TRUE, in.location)
    \/ \E r \in {KeywordRange("today"), KeywordRange("30days")},
          order \in DeliveryOrders(Len(qr_scans)) : GetQRAnalytics(1, 1, r, "UTC", order)

SpecRollup == Init /\ [][NextRollup]_vars

\* A call in steps: the clock passes local midnight of Asia/Kolkata and UTC
\* midnight, and scans are logged, while the queries of an analytics call run
NextSteps ==
    \/ \E t \in {DAY - IST, DAY} : Tick(t)
    \/ get_db
    \/ create_qr_code(1, "promo", "u1")
    \/ /\ next_scan_id <= MaxScans
       /\ log_scan(next_scan_id, 1, iPhone, TRUE, Pune)
    \/ \E r \in {KeywordRange("today"), KeywordRange("7days"),
                  DateRange("30days", Some(0), Some(1))}, reversed \in BOOLEAN :
          get_qr_analytics_begin(1, 1, r, "Asia/Kolkata", reversed)
    \/ \E u \in Users, tz \in {"Asia/Kolkata", "Mars/Phobos"} :
          get_qr_analytics_begin(u, 1, KeywordRange("today"), tz, FALSE)
    \/ get_qr_analytics_now
    \/ get_qr_analytics_query
    \/ get_qr_analytics_fail
    \/ get_qr_analytics_return

SpecSteps == Init /\ [][NextSteps]_vars

\* Concurrent creation: a create request whose query and commit are separate
\* steps runs while other users create and delete QR codes
NextRace ==
    \/ get_db
    \/ \E u \in Users, c \in Codes : create_qr_code(u, c, "u1")
    \/ \E u \in Users, c \in Codes : create_qr_code_begin(u, c, "u2")
    \/ create_qr_code_commit
    \/ \E u \in Users, id \in QRIds : delete_qr_code(u, id)

SpecRace == Init /\ [][NextRace]_vars

----------------------------------------------------------------------------
(* Properties of get_qr_analytics.  While resp holds an analytics response the *)
(* tables and the clock are those the handler read: resp.req.at = now.         *)

AnalyticsOk == resp.op = "get_qr_analytics" /\ resp.status = 200

\* the positions of the stored events of the requested QR code that lie in the
\* resolved window, bounds included
InWindow ==
    {i \in DOMAIN qr_scans :
        /\ qr_scans[i].qr_code_id = resp.req.qr_id
        /\ (resp.window.utc_start.some => qr_scans[i].scanned_at >= resp.window.utc_start.v)
        /\ (resp.window.utc_end.some => qr_scans[i].scanned_at <= resp.window.utc_end.v)}

\* the wall-clock time a zone shows at the absolute instant t
WallAt(tz, t) == t + utcoffset(tz, t)
\* the hour of day a zone shows at the absolute instant t
HourAt(tz, t) == (WallAt(tz, t) % DAY) \div HOUR
\* the calendar day (days since the epoch) a zone shows at the absolute instant t
DayAt(tz, t) == WallAt(tz, t) \div DAY

RECURSIVE SumCounts(_)
SumCounts(seq) == IF seq = <<>> THEN 0 ELSE Head(seq).count + SumCounts(Tail(seq))

\* C1: hourly_breakdown has exactly 24 entries, hours 0..23 ascending, and entry
\* h counts the in-window events of the QR code whose scanned_at, converted from
\* UTC into the requested zone, has local hour h
C1_HourlyLocal ==
    AnalyticsOk =>
        /\ Len(resp.body.hourly_breakdown) = 24
        /\ \A h \in 0..23 :
            resp.body.hourly_breakdown[h + 1] =
                [hour |-> h,
                 count |-> Cardinality({i \in InWindow :
                              HourAt(resp.req.timezone, qr_scans[i].scanned_at) = h})]

\* C1 witness: an in-window event is counted at its local hour, which is not its
\* UTC hour, and the UTC hour's entry stays empty
C1_Witness ==
    /\ AnalyticsOk
    /\ resp.req.timezone = "Asia/Kolkata"
    /\ \E i \in InWindow :
          LET t == qr_scans[i].scanned_at
          IN  /\ HourAt("Asia/Kolkata", t) # HourAt("UTC", t)
              /\ resp.body.hourly_breakdown[HourAt("Asia/Kolkata", t) + 1].count >= 1
              /\ resp.body.hourly_breakdown[HourAt("UTC", t) + 1].count = 0

\* C2: the 24 hourly counts add up to total_scans
C2_HourlySum ==
    AnalyticsOk => SumCounts(resp.body.hourly_breakdown) = resp.body.total_scans

\* C2 witness: a window that holds one event of the QR code and leaves another
\* one out, and the hourly counts add up to 1
C2_Witness ==
    /\ AnalyticsOk
    /\ resp.body.total_scans = 1
    /\ SumCounts(resp.body.hourly_breakdown) = 1
    /\ \E i \in DOMAIN qr_scans :
          qr_scans[i].qr_code_id = resp.req.qr_id /\ i \notin InWindow

\* the highest count of the hourly breakdown
MaxHourly == LET hb == resp.body.hourly_breakdown
             IN  CHOOSE c \in {hb[i].count : i \in 1..24} :
                    \A i \in 1..24 : hb[i].count <= c

\* C3: peak_hour is the lowest hour among those holding the maximum count,
\* whatever the order in which the store delivers the events, and it is null
\* exactly when the window holds no event
C3_PeakLowestHour ==
    AnalyticsOk =>
        /\ resp.body.peak_hour.some <=> InWindow # {}
        /\ resp.body.peak_hour.some =>
              /\ resp.body.hourly_breakdown[resp.body.peak_hour.v + 1].count = MaxHourly
              /\ \A h \in 0..23 :
                    resp.body.hourly_breakdown[h + 1].count = MaxHourly
                        => resp.body.peak_hour.v <= h

\* C5: total_scans is the number of stored events of the requested QR code
\* whose scanned_at lies in the resolved window, bounds included; with the
\* keyword all and no date pair it is the number of all events of that QR code
C5_TotalScans ==
    AnalyticsOk =>
        /\ resp.body.total_scans = Cardinality(InWindow)
        /\ (resp.req.time_range = "all"
            /\ ~ (resp.req.start_date.some /\ resp.req.end_date.some))
              => resp.body.total_scans =
                    Cardinality({i \in DOMAIN qr_scans :
                                    qr_scans[i].qr_code_id = resp.req.qr_id})

\* C5 witness: an event stamped exactly at the end of a window with two bounds
\* is counted, an event of another QR code inside the same window is not
C5_Witness ==
    /\ AnalyticsOk
    /\ resp.window.utc_start.some /\ resp.window.utc_end.some
    /\ resp.window.utc_start.v < resp.window.utc_end.v
    /\ \E i \in InWindow : qr_scans[i].scanned_at = resp.window.utc_end.v
    /\ \E i \in DOMAIN qr_scans :
          /\ qr_scans[i].qr_code_id # resp.req.qr_id
          /\ qr_scans[i].scanned_at >= resp.window.utc_start.v
          /\ qr_scans[i].scanned_at <= resp.window.utc_end.v
    /\ resp.body.total_scans = 1

\* the analytics of the same state and request with another (time_range,
\* start_date, end_date), the store delivering its rows in insertion order
Rerun(r) ==
    get_qr_analytics(qr_codes, qr_scans, resp.req.at, resp.req.qr_id, r.time_range,
                     r.start_date, r.end_date, resp.req.timezone, resp.req.current_user,
                     [i \in DOMAIN qr_scans |-> i])

\* the stored events of the requested QR code, in or out of the window
OfRequestedQR == {i \in DOMAIN qr_scans : qr_scans[i].qr_code_id = resp.req.qr_id}

\* C4: scans_today, scans_this_week and scans_this_month count all events of
\* the QR code since local midnight, since now-7d and since now-30d, and do not
\* depend on time_range, start_date or end_date
C4_RecencyIndependent ==
    AnalyticsOk =>
        /\ resp.body.scans_today =
              Cardinality({i \in OfRequestedQR :
                  DayAt(resp.req.timezone, qr_scans[i].scanned_at)
                      >= DayAt(resp.req.timezone, resp.req.at)})
        /\ resp.body.scans_this_week =
              Cardinality({i \in OfRequestedQR :
                  qr_scans[i].scanned_at >= resp.req.at - 7 * DAY})
        /\ resp.body.scans_this_month =
              Cardinality({i \in OfRequestedQR :
                  qr_scans[i].scanned_at >= resp.req.at - 30 * DAY})
        /\ \A r \in RangeInputs :
              /\ Rerun(r).body.scans_today = resp.body.scans_today
              /\ Rerun(r).body.scans_this_week = resp.body.scans_this_week
              /\ Rerun(r).body.scans_this_month = resp.body.scans_this_month

\* C6: a request for a QR code that does not exist and a request for a QR code
\* of another user end alike: 404 with the same detail, after the ownership
\* query alone, and equal to the answer for an id that was never assigned
C6_NotFoundUniform ==
    (/\ resp.op = "get_qr_analytics"
     /\ resp.req.timezone \in ValidZones
     /\ ~ \E q \in qr_codes :
            q.id = resp.req.qr_id /\ q.created_by = resp.req.current_user)
    => LET missing == get_qr_analytics(qr_codes, qr_scans, resp.req.at, MaxQR + 2,
                          resp.req.time_range, resp.req.start_date, resp.req.end_date,
                          resp.req.timezone, resp.req.current_user,
                          [i \in DOMAIN qr_scans |-> i])
       IN  /\ resp.status = 404
           /\ resp.detail = "QR code not found"
           /\ resp.queries = <<"ownership">>
           /\ resp.body = <<>>
           /\ <<resp.status, resp.detail, resp.queries, resp.body, resp.window>>
                = <<missing.status, missing.detail, missing.queries, missing.body,
                    missing.window>>

\* C6 witness: the 404 answers a request for a QR code that exists, has scans
\* and belongs to another user
C6_Witness ==
    /\ resp.op = "get_qr_analytics"
    /\ resp.status = 404
    /\ \E q \in qr_codes :
          q.id = resp.req.qr_id /\ q.created_by # resp.req.current_user
    /\ \E i \in DOMAIN qr_scans : qr_scans[i].qr_code_id = resp.req.qr_id

BothDates == resp.req.start_date.some /\ resp.req.end_date.some

C8_AllUnbounded ==
    (AnalyticsOk /\ ~ BothDates /\ resp.req.time_range = "all") =>
        /\ ~ resp.window.utc_start.some
        /\ ~ resp.window.utc_end.some

\* C9: with both dates the window runs from 00:00 of start_date to the last
\* instant of end_date on the requested zone's clock, and window and result are
\* those of the same request with any other time_range
C9_DatesTakePrecedence ==
    (AnalyticsOk /\ BothDates) =>
        LET tz == resp.req.timezone
            w == resp.window
        IN  /\ w.utc_start.some /\ w.utc_end.some
            /\ WallAt(tz, w.utc_start.v) = resp.req.start_date.v * DAY
            /\ WallAt(tz, w.utc_end.v) = resp.req.end_date.v * DAY + (DAY - Resolution)
            /\ \A r \in TimeRanges :
                  \E order \in RowOrders(Len(qr_scans)) :
                      LET o == get_qr_analytics(qr_codes, qr_scans, resp.req.at,
                                   resp.req.qr_id, r, resp.req.start_date,
                                   resp.req.end_date, tz, resp.req.current_user, order)
                      IN  o.status = 200 /\ o.window = w /\ o.body = resp.body

\* C9 witness: a request with both dates and the keyword all gets a bounded
\* window that leaves a stored event of the QR code out
C9_Witness ==
    /\ AnalyticsOk /\ BothDates
    /\ resp.req.time_range = "all"
    /\ resp.window.utc_start.some
    /\ resp.body.total_scans = 1
    /\ Cardinality(OfRequestedQR) = 2

\* C10: with start_date = end_date = D the events in the window are exactly the
\* events of the QR code whose timestamp falls on day D on the requested zone's
\* clock, and they are the events counted and returned
C10_OneDayWindow ==
    (AnalyticsOk /\ BothDates /\ resp.req.start_date = resp.req.end_date) =>
        LET onDay == {i \in OfRequestedQR :
                        DayAt(resp.req.timezone, qr_scans[i].scanned_at)
                            = resp.req.start_date.v}
        IN  /\ InWindow = onDay
            /\ resp.body.total_scans = Cardinality(onDay)
            /\ {resp.body.recent_scans[k] : k \in DOMAIN resp.body.recent_scans}
                  = {qr_scans[i].id : i \in onDay}

\* C10 witness: the event stamped at the last second of day D on the zone's
\* clock is in, the event one second later is out
C10_Witness ==
    /\ AnalyticsOk /\ BothDates /\ resp.req.start_date = resp.req.end_date
    /\ resp.req.timezone # "UTC"
    /\ \E i \in InWindow, j \in OfRequestedQR \ InWindow :
          /\ qr_scans[j].scanned_at = qr_scans[i].scanned_at + 1
          /\ qr_scans[i].scanned_at = resp.window.utc_end.v
    /\ resp.body.total_scans = 1

----------------------------------------------------------------------------
(* Validation and the rollups *)

\* C11: a request whose timezone names no zone is answered 400 before any
\* query has run and carries no analytics result, and 400 is the answer to
\* such requests only
C11_InvalidTimezone ==
    resp.op = "get_qr_analytics" =>
        /\ resp.req.timezone \notin ValidZones =>
              /\ resp.status = 400
              /\ resp.detail = "Invalid timezone"
              /\ resp.queries = <<>>
              /\ resp.body = <<>>
              /\ resp.window = <<>>
        /\ resp.status = 400 => resp.req.timezone \notin ValidZones

\* C11 witness: the 400 answers the owner of a QR code that has scans, whose
\* request would succeed with a valid zone
C11_Witness ==
    /\ resp.op = "get_qr_analytics"
    /\ resp.status = 400
    /\ \E q \in qr_codes :
          q.id = resp.req.qr_id /\ q.created_by = resp.req.current_user
    /\ \E i \in DOMAIN qr_scans : qr_scans[i].qr_code_id = resp.req.qr_id

\* page and page_size as a client may send them in the query string; the
\* handler declares neither parameter, so the response does not depend on them
Pages == 1..3
PageSizes == {1, 2, 10}

\* the in-window events in an order of descending scanned_at, as ids
SortedInWindow ==
    {o \in [1..Cardinality(InWindow) -> InWindow] :
        /\ \A i, j \in DOMAIN o : i # j => o[i] # o[j]
        /\ \A i, j \in DOMAIN o :
              i < j => qr_scans[o[i]].scanned_at >= qr_scans[o[j]].scanned_at}

\* the slice (page, page_size) of a sequence
PageSlice(seq, page, page_size) ==
    SubSeq(seq, (page - 1) * page_size + 1, Min(Len(seq), page * page_size))

\* C12: the events returned are the slice (page, page_size) of the in-window
\* events of the QR code in descending order of scanned_at, and a page past
\* the last one gives an empty list
C12_PagedEvents ==
    AnalyticsOk =>
        \A page \in Pages, page_size \in PageSizes :
            \E o \in SortedInWindow :
                resp.body.recent_scans =
                    PageSlice([i \in DOMAIN o |-> qr_scans[o[i]].id], page, page_size)

\* C13: the result reports filtered_scan_count = total_scans and
\* total_pages = max(1, ceil(filtered_scan_count / page_size)) for every page
C13_TotalPages ==
    AnalyticsOk =>
        /\ "filtered_scan_count" \in DOMAIN resp.body
        /\ "total_pages" \in DOMAIN resp.body
        /\ resp.body.filtered_scan_count = resp.body.total_scans
        /\ \A page_size \in PageSizes :
              resp.body.total_pages =
                  Max(1, (resp.body.filtered_scan_count + page_size - 1) \div page_size)

\* the request comes from the owner of the QR code and names a valid zone
OwnerRequest ==
    /\ resp.op = "get_qr_analytics"
    /\ resp.req.timezone \in ValidZones
    /\ \E q \in qr_codes :
          q.id = resp.req.qr_id /\ q.created_by = resp.req.current_user

\* C14: a request whose window holds no event of the QR code succeeds with
\* every count 0, mobile_percentage 0, empty top lists, 24 zero hours, a null
\* peak_hour and an empty event list
C14_ZeroEvents ==
    OwnerRequest =>
        /\ resp.status = 200
        /\ InWindow = {} =>
              /\ resp.body.total_scans = 0
              /\ resp.body.scans_today = 0
              /\ resp.body.scans_this_week = 0
              /\ resp.body.scans_this_month = 0
              /\ resp.body.device_breakdown = [mobile |-> 0, desktop |-> 0, tablet |-> 0]
              /\ resp.body.mobile_percentage = 0
              /\ resp.body.top_countries = <<>>
              /\ resp.body.top_cities = <<>>
              /\ resp.body.hourly_breakdown = [i \in 1..24 |-> [hour |-> i - 1, count |-> 0]]
              /\ resp.body.peak_hour = None
              /\ resp.body.recent_scans = <<>>

\* C14 witness: the QR code has events, all of them outside the window asked
\* for, and the result is all zeros
C14_Witness ==
    /\ AnalyticsOk
    /\ InWindow = {}
    /\ OfRequestedQR # {}
    /\ resp.body.total_scans = 0
    /\ resp.body.peak_hour = None
    /\ resp.body.mobile_percentage = 0

\* C15: mobile, desktop and tablet are the numbers of in-window events with
\* device_type Mobile, Desktop and Tablet, an event with another device_type
\* is in no bucket, and the three add up to at most total_scans
C15_DeviceBuckets ==
    AnalyticsOk =>
        LET of_type(d) == Cardinality({i \in InWindow : qr_scans[i].device_type = d})
            b == resp.body.device_breakdown
        IN  /\ b.mobile = of_type("Mobile")
            /\ b.desktop = of_type("Desktop")
            /\ b.tablet = of_type("Tablet")
            /\ b.mobile + b.desktop + b.tablet =
                  Cardinality({i \in InWindow :
                      qr_scans[i].device_type \in {"Mobile", "Desktop", "Tablet"}})
            /\ b.mobile + b.desktop + b.tablet <= resp.body.total_scans

\* C15 witness: the window holds events of all three device types and leaves
\* out an event of the QR code
C15_Witness ==
    /\ AnalyticsOk
    /\ resp.body.device_breakdown.mobile >= 1
    /\ resp.body.device_breakdown.desktop >= 2
    /\ resp.body.device_breakdown.tablet = 1
    /\ OfRequestedQR \ InWindow # {}

\* the countries, and the (city, country) pairs, of the in-window events
CountriesInWindow ==
    {qr_scans[i].country : i \in {j \in InWindow : qr_scans[j].country.some}}
CitiesInWindow ==
    {[city |-> qr_scans[i].city, country |-> qr_scans[i].country] :
        i \in {j \in InWindow : qr_scans[j].city.some}}
EventsOfCountry(c) == Cardinality({i \in InWindow : qr_scans[i].country = c})
EventsOfCity(p) ==
    Cardinality({i \in InWindow :
                    qr_scans[i].city = p.city /\ qr_scans[i].country = p.country})

\* C16: top_countries holds the countries of the in-window events, five at
\* most and all of them when there are fewer, none of them null and none
\* twice, each with its number of in-window events, in non-increasing order of
\* that number, and no country left out has more events than one listed;
\* top_cities likewise over the (city, country) pairs with a city
C16_TopLists ==
    AnalyticsOk =>
        LET tc == resp.body.top_countries
            tp == resp.body.top_cities
            pair(e) == [city |-> e.city, country |-> e.country]
        IN  /\ Len(tc) = Min(TopN, Cardinality(CountriesInWindow))
            /\ \A i \in DOMAIN tc :
                  /\ tc[i].country.some
                  /\ tc[i].country \in CountriesInWindow
                  /\ tc[i].count = EventsOfCountry(tc[i].country)
                  /\ \A j \in DOMAIN tc : i < j =>
                        /\ tc[i].count >= tc[j].count
                        /\ tc[i].country # tc[j].country
                  /\ \A c \in CountriesInWindow \ {tc[j].country : j \in DOMAIN tc} :
                        EventsOfCountry(c) <= tc[i].count
            /\ Len(tp) = Min(TopN, Cardinality(CitiesInWindow))
            /\ \A i \in DOMAIN tp :
                  /\ tp[i].city.some
                  /\ pair(tp[i]) \in CitiesInWindow
                  /\ tp[i].count = EventsOfCity(pair(tp[i]))
                  /\ \A j \in DOMAIN tp : i < j =>
                        /\ tp[i].count >= tp[j].count
                        /\ pair(tp[i]) # pair(tp[j])
                  /\ \A p \in CitiesInWindow \ {pair(tp[j]) : j \in DOMAIN tp} :
                        EventsOfCity(p) <= tp[i].count

\* C16 witness: the window holds events of more than five countries, one of
\* them with two events, an event without country and an event with a country
\* but no city; five countries are listed, the one with two events first
C16_Witness ==
    /\ AnalyticsOk
    /\ Cardinality(CountriesInWindow) > TopN
    /\ Len(resp.body.top_countries) = TopN
    /\ Len(resp.body.top_cities) = TopN
    /\ resp.body.top_countries[1].count = 2
    /\ resp.body.top_countries[2].count = 1
    /\ \E i \in InWindow : ~ qr_scans[i].country.some
    /\ \E i \in InWindow : qr_scans[i].country.some /\ ~ qr_scans[i].city.some

\* total_scans of the same request on the same stored events at the same
\* reference instant, asked for in zone tz
TotalIn(tz) ==
    get_qr_analytics(qr_codes, qr_scans, resp.req.at, resp.req.qr_id,
                     resp.req.time_range, resp.req.start_date, resp.req.end_date,
                     tz, resp.req.current_user,
                     [i \in DOMAIN qr_scans |-> i]).body.total_scans

\* the zones whose UTC offset never changes
FixedOffsetZones == {"UTC", "Asia/Kolkata"}

\* C17: a call that differs from another only in its timezone returns the
\* same total_scans, for every time_range and every explicit date pair
C17_TimezoneInvariant ==
    AnalyticsOk => \A tz \in ValidZones : TotalIn(tz) = resp.body.total_scans

\* C17 as amended: without a date pair, total_scans is the same in every
\* timezone for the keyword all and, for 7days, 30days, 90days and year, the
\* same in any two timezones of constant UTC offset
C17_TimezoneInvariantLookback ==
    (AnalyticsOk /\ ~ BothDates /\ resp.req.time_range # "today") =>
        \A tz \in ValidZones :
            (resp.req.time_range = "all" \/ {tz, resp.req.timezone} \subseteq FixedOffsetZones)
                => TotalIn(tz) = resp.body.total_scans

\* C17 witness: a 7-day window asked for in Asia/Kolkata holds one event
\* of the QR code and leaves out another one that is less than a UTC offset
\* older than the window's start, and UTC gives the same total
C17_Witness ==
    /\ AnalyticsOk /\ ~ BothDates
    /\ resp.req.time_range = "7days"
    /\ resp.req.timezone = "Asia/Kolkata"
    /\ resp.body.total_scans = 1
    /\ TotalIn("UTC") = 1
    /\ \E i \in OfRequestedQR \ InWindow :
          qr_scans[i].scanned_at + IST >= resp.window.utc_start.v

\* C18: every query of one call is given boundaries derived from the one
\* instant read before the first rollup query: the bounds of the window, the
\* start of today, of the last 7 and of the last 30 days; they stay what they
\* are while the clock advances and the queries run
C18_SingleReference ==
    call.pc \notin {"idle", "capture"} =>
        LET b == boundaries(call.req.timezone, call.ref, call.req.r)
        IN  /\ call.ref <= now
            /\ \A i \in DOMAIN call.used :
                  call.used[i].bounds =
                      IF call.used[i].query = "counts" THEN b ELSE [window |-> b.window]

\* C18 witness: the six queries of a call for today have run, the clock has
\* passed local midnight since the instant was read, and the counts query run
\* after midnight has counted an event of the day before as one of today
C18_Witness ==
    /\ call.pc = "return"
    /\ Len(call.used) = 6
    /\ call.req.r.time_range = "today"
    /\ DayAt(call.req.timezone, now) > DayAt(call.req.timezone, call.ref)
    /\ call.counts.scans_today = 1
    /\ \E i \in DOMAIN qr_scans :
          /\ qr_scans[i].scanned_at > call.ref
          /\ DayAt(call.req.timezone, qr_scans[i].scanned_at)
                = DayAt(call.req.timezone, now)

----------------------------------------------------------------------------
(* Ingestion *)

\* the QR code a log_scan request names is stored
ScanOfStoredQR == \E q \in qr_codes : q.id = resp.req.qr_code_id

\* C19: while is_active of a QR code is false, redirect_qr answers 410 for
\* its code and log_scan stores no event for it
C19_InactiveNoAppend ==
    /\ (resp.op = "redirect_qr"
        /\ \E q \in qr_codes : q.code = resp.code /\ ~ q.is_active)
          => resp.status = 410
    /\ (resp.op = "log_scan" /\ resp.body = "success")
          => \E q \in qr_codes :
                q.id = qr_scans[Len(qr_scans)].qr_code_id /\ q.is_active

\* C20: a log_scan request that carries a user agent and names a stored QR
\* code appends exactly one event and answers success, with or without GPS
\* coordinates, and when the lookup failed the event's country, city and
\* region are null
C20_ScanAlwaysAppended ==
    [][(resp = Idle /\ resp'.op = "log_scan" /\ resp'.req.user_agent.some
        /\ \E q \in qr_codes : q.id = resp'.req.qr_code_id)
       => /\ Len(qr_scans') = Len(qr_scans) + 1
          /\ resp'.body = "success"
          /\ (resp'.req.gps /\ resp'.req.location = UnknownLocation) =>
                LET e == qr_scans'[Len(qr_scans')]
                IN  e.country = None /\ e.city = None /\ e.region = None]_vars

\* the event the last successful log_scan has stored
LastEvent == qr_scans[Len(qr_scans)]

\* C21: the event a successful log_scan has stored has no country, city and
\* region when the request is answered; a later step of its own fills them in
C21_GeoNullAtIngestion ==
    (resp.op = "log_scan" /\ resp.body = "success")
       => /\ LastEvent.country = None
          /\ LastEvent.city = None
          /\ LastEvent.region = None

\* the positions of the events of the table before a step that are no longer
\* in the table after it
Removed ==
    {i \in DOMAIN qr_scans :
        \A j \in DOMAIN qr_scans' : qr_scans'[j].id # qr_scans[i].id}

\* C22: in every step an event that stays keeps its QR code and its scanned_at,
\* every stored event belongs to a stored QR code, and events leave the table
\* only in a successful delete_qr_code, which removes exactly the events of the
\* deleted QR code
C22_EventsImmutable ==
    [][/\ \A i \in DOMAIN qr_scans : \A j \in DOMAIN qr_scans' :
             qr_scans'[j].id = qr_scans[i].id
                => /\ qr_scans'[j].qr_code_id = qr_scans[i].qr_code_id
                   /\ qr_scans'[j].scanned_at = qr_scans[i].scanned_at
       /\ \A j \in DOMAIN qr_scans' :
             \E q \in qr_codes' : q.id = qr_scans'[j].qr_code_id
       /\ Removed # {} => (resp'.op = "delete_qr_code" /\ resp'.status = 204)
       /\ (resp = Idle /\ resp'.op = "delete_qr_code" /\ resp'.status = 204)
             => Removed = {i \in DOMAIN qr_scans :
                              qr_scans[i].qr_code_id = resp'.req.qr_id}]_vars

\* a QR code with an event has been deleted while an event of another QR code
\* stays
C22_Witness ==
    /\ resp.op = "delete_qr_code"
    /\ resp.status = 204
    /\ next_scan_id = 3
    /\ Len(qr_scans) = 1

\* the number of stored events of a QR code
StoredEvents(qr_id) ==
    Cardinality({i \in DOMAIN qr_scans : qr_scans[i].qr_code_id = qr_id})

\* C23: the scan_count of every QR code list_qr_codes returns, and the one
\* get_qr_code returns, is the number of events stored for that QR code when
\* the request is handled
C23_ScanCountFromStore ==
    /\ (resp.op = "get_qr_code" /\ resp.status = 200)
          => resp.scan_count = StoredEvents(resp.id)
    /\ resp.op = "list_qr_codes"
          => \A k \in DOMAIN resp.body :
                resp.body[k].scan_count = StoredEvents(resp.body[k].id)

\* a list holds a QR code with one event while the table holds two events
C23_Witness ==
    /\ resp.op = "list_qr_codes"
    /\ Len(qr_scans) = 2
    /\ \E k \in DOMAIN resp.body : resp.body[k].scan_count = 1

\* C24: no step of get_qr_analytics changes a table, whether the call returns
\* a result, is refused for its zone or its owner, or ends in a failing query;
\* a result is given only when all queries have run and every other answer is
\* an error without a body
C24_AnalyticsReadOnly ==
    [][(call' # call \/ (resp' # resp /\ resp'.op = "get_qr_analytics"))
        => /\ UNCHANGED <<qr_codes, next_qr_id, qr_scans, next_scan_id>>
           /\ (resp' # resp /\ resp'.op = "get_qr_analytics")
                => IF resp'.status = 200
                   THEN resp'.queries = <<"ownership", "counts", "device", "city",
                                           "country", "hourly", "recent">>
                   ELSE /\ resp'.status \in {400, 404, 500}
                        /\ resp'.body = <<>>]_vars

\* a call has failed after its counts and device queries had counted an event
C24_Witness ==
    /\ resp.op = "get_qr_analytics"
    /\ resp.status = 500
    /\ Len(resp.queries) >= 3
    /\ Len(qr_scans) >= 1

\* C25: a request of the owner whose start_date is later than its end_date is
\* refused with a validation error
C25_ReversedDatesRejected ==
    (OwnerRequest /\ BothDates /\ resp.req.start_date.v > resp.req.end_date.v)
       => resp.status \in {400, 422}

\* C26: a log_scan request that has coordinates and names a stored QR code is
\* stored whatever its user agent, null included; every stored device_type is
\* Mobile, Desktop, Tablet or Unknown, and it is Unknown when the user agent
\* matches no category
C26_DeviceTypeTotal ==
    /\ (resp.op = "log_scan" /\ resp.req.gps /\ ScanOfStoredQR)
          => resp.body = "success"
    /\ \A i \in DOMAIN qr_scans :
          qr_scans[i].device_type \in {"Mobile", "Desktop", "Tablet", "Unknown"}
    /\ (resp.op = "log_scan" /\ resp.body = "success"
        /\ resp.req.user_agent.v \cap {"mobile", "android", "iphone", "tablet",
                                       "ipad"} = {})
          => LastEvent.device_type = "Unknown"

\* C27: redirect_qr answers the code of a stored, active QR code with status
\* 302 and a Location header that is the QR code's target_url
C27_Redirect302 ==
    (resp.op = "redirect_qr"
     /\ \E q \in qr_codes : q.code = resp.code /\ q.is_active)
       => /\ resp.status = 302
          /\ \E q \in qr_codes : q.code = resp.code /\ resp.Location = q.target_url

\* C28: whatever is logged while the queries of a call run, the rollups of its
\* result fit its total_scans: the hourly counts sum to it, and the device
\* counts together, every top_countries count and the number of recent events
\* do not exceed it
C28_RollupsSameEvents ==
    AnalyticsOk =>
        LET b == resp.body
        IN  /\ SumCounts(b.hourly_breakdown) = b.total_scans
            /\ b.device_breakdown.mobile + b.device_breakdown.desktop
                  + b.device_breakdown.tablet <= b.total_scans
            /\ \A k \in DOMAIN b.top_countries :
                  b.top_countries[k].count <= b.total_scans
            /\ Len(b.recent_scans) <= b.total_scans

C30_OwnerOnlyWrites ==
    [][/\ (resp = Idle /\ resp'.op \in {"update_qr_code", "delete_qr_code"}
           /\ ~ \E q \in qr_codes : /\ q.id = resp'.req.qr_id
                                    /\ q.created_by = resp'.req.current_user)
             => /\ resp'.status = 404
                /\ UNCHANGED <<qr_codes, qr_scans>>
       /\ \A q \in qr_codes :
             q \notin qr_codes'
                => /\ resp'.op \in {"update_qr_code", "delete_qr_code"}
                   /\ resp'.status \in {200, 204}
                   /\ resp'.req.qr_id = q.id
                   /\ resp'.req.current_user = q.created_by]_vars

\* a user has asked to delete another user's QR code, which has an event
C30_Witness ==
    /\ resp.op = "delete_qr_code"
    /\ resp.status = 404
    /\ \E q \in qr_codes :
          /\ q.id = resp.req.qr_id
          /\ q.created_by # resp.req.current_user
          /\ StoredEvents(q.id) >= 1

====
